---- MODULE Spec2Model ----
(***************************************************************************)
(* A model of app.py (Deeper Moorings cable bending-stress tool).          *)
(*                                                                         *)
(* Python floats are modelled as exact decimal rationals                   *)
(*     [n |-> numerator, d |-> denominator, e |-> power of ten]            *)
(* standing for n/d * 10^e, kept in a canonical form (gcd(n,d) = 1,        *)
(* d > 0 and coprime to 10, n not a multiple of 10) so that two values     *)
(* are equal exactly when their records are equal.  IEEE rounding is not   *)
(* modelled: every arithmetic operator below is the exact operation.       *)
(*                                                                         *)
(* Strings are sequences of one-character strings.                         *)
(***************************************************************************)
EXTENDS Integers, Sequences, FiniteSets, TLC

VARIABLES
    pc,             \* position of the script / call being modelled
    args,           \* the arguments of a compute_curves call
    curves,         \* the dict compute_curves returned (insertion-ordered)
    labels_sorted,  \* display order of the curve labels
    loads_str,      \* text of the "Axial loads" input
    axial_loads,    \* the parsed load list
    R_min, R_max, n_pts, \* radius range inputs
    R,              \* np.linspace(R_min, R_max, n_pts)
    geo,            \* Card 1 inputs: diam_mm, ins_thk_mm, od_mm, jkt_wall_mm, min_clear_mm
    r_core, r_ins, clr_m, \* derived geometry (meters)
    y_default_mm,   \* 1000 * compute_y_default(...)
    y_mm,           \* the y number_input
    fit_errors      \* set of validation messages raised

vars == <<pc, args, curves, labels_sorted, loads_str, axial_loads,
          R_min, R_max, n_pts, R, geo, r_core, r_ins, clr_m,
          y_default_mm, y_mm, fit_errors>>

curveVars == <<args, curves, labels_sorted>>
parseVars == <<loads_str, axial_loads>>
sweepVars == <<R_min, R_max, n_pts, R>>
geomVars  == <<geo, r_core, r_ins, clr_m, y_default_mm, y_mm, fit_errors>>

(***************************************************************************)
(* Bounds of the model.                                                    *)
(***************************************************************************)
MaxLoads == 2       \* longest axial load list passed to compute_curves
MaxStrLen == 4      \* longest load text typed into the text input

(***************************************************************************)
(* Exact arithmetic standing for Python's float operators.                 *)
(***************************************************************************)
Abs(x) == IF x < 0 THEN -x ELSE x
Min(a, b) == IF a <= b THEN a ELSE b

RECURSIVE Gcd(_, _)
Gcd(a, b) == IF b = 0 THEN a ELSE Gcd(b, a % b)

RECURSIVE Pow10(_)
Pow10(k) == IF k = 0 THEN 1 ELSE 10 * Pow10(k - 1)

RECURSIVE Norm(_, _, _)
Norm(n, d, e) ==
    IF n = 0 THEN [n |-> 0, d |-> 1, e |-> 0]
    ELSE IF d < 0 THEN Norm(-n, -d, e)
    ELSE LET g == Gcd(Abs(n), d) IN
         IF g > 1 THEN Norm(n \div g, d \div g, e)
         ELSE IF Abs(n) % 10 = 0 THEN Norm(n \div 10, d, e + 1)
         ELSE IF d % 10 = 0 THEN Norm(n, d \div 10, e - 1)
         ELSE IF d % 2 = 0 THEN Norm(n * 5, d \div 2, e - 1)
         ELSE IF d % 5 = 0 THEN Norm(n * 2, d \div 5, e - 1)
         ELSE [n |-> n, d |-> d, e |-> e]

Dec(n, e) == Norm(n, 1, e)          \* the decimal literal n * 10^e
Num(n) == Norm(n, 1, 0)             \* the integer n
Frac(n, d) == Norm(n, d, 0)         \* n / d
Zero == Num(0)
One == Num(1)

RatMul(a, b) ==
    IF a.n = 0 \/ b.n = 0 THEN Zero
    ELSE LET g1 == Gcd(Abs(a.n), b.d)
             g2 == Gcd(Abs(b.n), a.d)
         IN  Norm((a.n \div g1) * (b.n \div g2), (a.d \div g2) * (b.d \div g1), a.e + b.e)

RatInv(a) == Norm(a.d, a.n, -a.e)   \* only for a # 0
RatDiv(a, b) == RatMul(a, RatInv(b))
RatNeg(a) == [a EXCEPT !.n = -a.n]

RatAdd(a, b) ==
    IF a.n = 0 THEN b
    ELSE IF b.n = 0 THEN a
    ELSE LET m == Min(a.e, b.e)
             an == a.n * Pow10(a.e - m)
             bn == b.n * Pow10(b.e - m)
             g == Gcd(a.d, b.d)
         IN  Norm(an * (b.d \div g) + bn * (a.d \div g), (a.d \div g) * b.d, m)

RatSub(a, b) == RatAdd(a, RatNeg(b))
Sgn(a) == IF a.n < 0 THEN -1 ELSE IF a.n = 0 THEN 0 ELSE 1
RatLess(a, b) == IF Sgn(a) # Sgn(b) THEN Sgn(a) < Sgn(b) ELSE RatSub(a, b).n < 0
RatLeq(a, b) == a = b \/ RatLess(a, b)
RatAbs(a) == [a EXCEPT !.n = Abs(a.n)]
RatMax(a, b) == IF RatLess(a, b) THEN b ELSE a      \* Python max(a, b)

(***************************************************************************)
(* Strings: str comparison, substring test, "%g" formatting.               *)
(***************************************************************************)
\* The characters the labels use, in code-point order.
Ascii == <<" ", "+", "-", ".", "0", "1", "2", "3", "4", "5", "6", "7", "8", "9",
           ":", "C", "N", "P", "a", "b", "d", "e", "f", "g", "i", "l", "n", "r",
           "s", "u", "x">>
Ord(c) == CHOOSE i \in 1..Len(Ascii) : Ascii[i] = c

RECURSIVE StrLess(_, _)
StrLess(s, t) ==                     \* Python's s < t on str
    IF t = <<>> THEN FALSE
    ELSE IF s = <<>> THEN TRUE
    ELSE IF Head(s) = Head(t) THEN StrLess(Tail(s), Tail(t))
    ELSE Ord(Head(s)) < Ord(Head(t))

Contains(s, sub) ==                  \* Python's sub in s
    \E i \in 0..(Len(s) - Len(sub)) : SubSeq(s, i + 1, i + Len(sub)) = sub

DigitChar(k) == <<"0", "1", "2", "3", "4", "5", "6", "7", "8", "9">>[k + 1]

RECURSIVE Digits(_)
Digits(k) == IF k < 10 THEN <<DigitChar(k)>>
             ELSE Digits(k \div 10) \o <<DigitChar(k % 10)>>

RECURSIVE PadDigits(_, _)
PadDigits(k, w) == IF w = 0 THEN <<>>
                   ELSE PadDigits(k \div 10, w - 1) \o <<DigitChar(k % 10)>>

\* format(L, "g") for a decimal L (L.d = 1) of at most 6 significant digits
\* with 1e-4 <= |L| < 1e6 or L = 0: the shortest positional decimal.
FmtG(L) ==
    LET m == Abs(L.n)
        body == IF L.e >= 0 THEN Digits(m * Pow10(L.e))
                ELSE Digits(m \div Pow10(-L.e)) \o <<".">> \o PadDigits(m % Pow10(-L.e), -L.e)
    IN  IF L.n < 0 THEN <<"-">> \o body ELSE body

PureLabel == <<"C", "a", "s", "e", " ", "1", ":", " ",
               "P", "u", "r", "e", " ", "b", "e", "n", "d", "i", "n", "g">>
PureBending == <<"P", "u", "r", "e", " ", "b", "e", "n", "d", "i", "n", "g">>
UnitStr(u) == IF u = "N" THEN <<"N">> ELSE <<"l", "b", "f">>

\* f"Case 2: + {L:g} {loads_unit} axial"
Label(L, loads_unit) ==
    <<"C", "a", "s", "e", " ", "2", ":", " ", "+", " ">> \o FmtG(L) \o <<" ">>
      \o UnitStr(loads_unit) \o <<" ", "a", "x", "i", "a", "l">>

(***************************************************************************)
(* dict: a sequence of [label, values] in insertion order.                 *)
(***************************************************************************)
DictHas(d, k) == \E i \in 1..Len(d) : d[i].label = k
DictGet(d, k) == d[CHOOSE i \in 1..Len(d) : d[i].label = k].values
DictSet(d, k, v) ==                  \* d[k] = v
    IF DictHas(d, k)
    THEN [i \in 1..Len(d) |-> IF d[i].label = k THEN [label |-> k, values |-> v] ELSE d[i]]
    ELSE Append(d, [label |-> k, values |-> v])
DictKeys(d) == [i \in 1..Len(d) |-> d[i].label]

(***************************************************************************)
(* Mechanics: compute_curves.                                              *)
(***************************************************************************)
LbfFactor == Norm(444822, 1, -5)                    \* 4.44822
lbf_to_N(x) == RatMul(x, LbfFactor)

\* np.cos(np.deg2rad(a))**2 at the lay angles whose value is rational
Cos2Deg(a) == CASE a = 0 -> One
                [] a = 30 -> Frac(3, 4)
                [] a = 45 -> Frac(1, 2)
                [] a = 60 -> Frac(1, 4)

\* a plausible slip: the radius used where the curvature is meant
KappaRadius(Rm) == Rm
Kappa(Rm) == RatDiv(One, Rm)                        \* kappa = 1.0 / R_m

Cos2(a) == IF a.helix_enable THEN Cos2Deg(a.helix_angle_deg) ELSE One

\* sigma_b = E * kappa * y * cos2 * bend_amp_factor, element-wise over R_m
SigmaB(a) ==
    LET E == RatMul(a.E_GPa, Dec(1, 9))
        y == RatDiv(a.y_mm, Num(1000))
    IN  [i \in 1..Len(a.R_m) |->
            RatMul(RatMul(RatMul(RatMul(E, Kappa(a.R_m[i])), y), Cos2(a)), a.bend_amp_factor)]

\* a plausible slip: the copper's share of the axial load left out
TEffNoShare(a, L) ==
    LET T == IF a.loads_unit = "N" THEN L ELSE lbf_to_N(L)
    IN  IF a.axial_reduction_enable THEN RatMul(T, a.axial_reduction_factor) ELSE T
TEff(a, L) ==
    LET T == IF a.loads_unit = "N" THEN L ELSE lbf_to_N(L)
        T_eff == RatMul(T, a.f_axial_share)
    IN  IF a.axial_reduction_enable THEN RatMul(T_eff, a.axial_reduction_factor) ELSE T_eff

\* sigma_ax = (T_eff / n_cond) / max(A_c, 1e-12) * cos2   (n_cond # 0)
SigmaAx(a, L) ==
    LET A_c == RatDiv(a.A_c_mm2, Dec(1, 6))
    IN  RatMul(RatDiv(RatDiv(TEff(a, L), Num(a.n_cond)), RatMax(A_c, Dec(1, -12))), Cos2(a))

\* np.abs(x) * safety_factor, element-wise
AbsTimes(x, sf) == [i \in 1..Len(x) |-> RatMul(RatAbs(x[i]), sf)]

\* the body of "for L in axial_loads", from the i-th load on
RECURSIVE LoadLoop(_, _, _)
LoadLoop(a, i, c) ==
    IF i > Len(a.axial_loads) THEN c
    ELSE LET L == a.axial_loads[i]
             sigma_b == SigmaB(a)
             sigma_ax == SigmaAx(a, L)
             tot == [j \in 1..Len(sigma_b) |-> RatAdd(sigma_b[j], sigma_ax)]
         IN  LoadLoop(a, i + 1, DictSet(c, Label(L, a.loads_unit), AbsTimes(tot, a.safety_factor)))

\* T_eff / n_cond raises ZeroDivisionError in the first iteration
Raises(a) == Len(a.axial_loads) > 0 /\ a.n_cond = 0

\* what compute_curves returns when it does not raise
compute_curves(a) ==
    LoadLoop(a, 1, <<[label |-> PureLabel, values |-> AbsTimes(SigmaB(a), a.safety_factor)]>>)

(***************************************************************************)
(* Display order: sorted(curves.keys(), key=lambda s: (0 if "Pure bending" *)
(* in s else 1, s)).                                                       *)
(***************************************************************************)
SortKey(s) == IF Contains(s, PureBending) THEN 0 ELSE 1
KeyLess(s, t) == SortKey(s) < SortKey(t) \/ (SortKey(s) = SortKey(t) /\ StrLess(s, t))

RECURSIVE Insert(_, _)
Insert(x, s) == IF s = <<>> THEN <<x>>
                ELSE IF KeyLess(x, Head(s)) THEN <<x>> \o s
                ELSE <<Head(s)>> \o Insert(x, Tail(s))

RECURSIVE SortFrom(_, _, _)
SortFrom(s, i, acc) == IF i > Len(s) THEN acc ELSE SortFrom(s, i + 1, Insert(s[i], acc))
Sorted(s) == SortFrom(s, 1, <<>>)

(***************************************************************************)
(* Inputs of the compute_curves specification.                             *)
(***************************************************************************)
Radii == {Frac(1, 2), Num(2)}
LoadValues == {Num(0), Num(20), Num(100)}
LoadLists == UNION {[1..k -> LoadValues] : k \in 0..MaxLoads}

\* A_c_mm2 is an AWG_DB area (16 AWG), E_GPa a MAT_DB modulus; the lay
\* angles are those of the slider's range whose cos^2 is rational.
ArgSpace ==
    [R_m : [1..2 -> Radii],
     E_GPa : {Num(110)},
     y_mm : {Num(0), Num(2)},
     A_c_mm2 : {Dec(131, -2)},
     axial_loads : LoadLists,
     loads_unit : {"N", "lbf"},
     f_axial_share : {Zero, One},
     helix_enable : BOOLEAN,
     helix_angle_deg : {0, 30},
     bend_amp_factor : {One, Num(2)},
     axial_reduction_enable : BOOLEAN,
     axial_reduction_factor : {Frac(1, 2)},
     safety_factor : {One, Num(2)},
     n_cond : {-1, 0, 2}]

IdleCurves == args = <<>> /\ curves = <<>> /\ labels_sorted = <<>>
IdleParse == loads_str = <<>> /\ axial_loads = <<>>
IdleSweep == R_min = Zero /\ R_max = Zero /\ n_pts = 0 /\ R = <<>>
IdleGeom ==
    /\ geo = <<>> /\ r_core = Zero /\ r_ins = Zero /\ clr_m = Zero
    /\ y_default_mm = Zero /\ y_mm = Zero /\ fit_errors = {}

InitCurves ==
    /\ pc = "call"
    /\ args \in ArgSpace
    /\ curves = <<>> /\ labels_sorted = <<>>
    /\ IdleParse /\ IdleSweep /\ IdleGeom

\* compute_curves(...) returns
Return ==
    /\ pc = "call" /\ ~Raises(args)
    /\ curves' = compute_curves(args)
    /\ pc' = "returned"
    /\ UNCHANGED <<args, labels_sorted, parseVars, sweepVars, geomVars>>

\* compute_curves(...) raises ZeroDivisionError
Raise ==
    /\ pc = "call" /\ Raises(args)
    /\ pc' = "raised"
    /\ UNCHANGED <<curveVars, parseVars, sweepVars, geomVars>>

\* labels_sorted = sorted(curves.keys(), key=...)
Display ==
    /\ pc = "returned"
    /\ labels_sorted' = Sorted(DictKeys(curves))
    /\ pc' = "displayed"
    /\ UNCHANGED <<args, curves, parseVars, sweepVars, geomVars>>

NextCurves == Return \/ Raise \/ Display
SpecCurves == InitCurves /\ [][NextCurves]_vars

(***************************************************************************)
(* Claims about compute_curves and the display order (SpecCurves).         *)
(***************************************************************************)
Returned == pc \in {"returned", "displayed"}
PureValues == DictGet(curves, PureLabel)

\* C1: for every axial load list (duplicates, zeros and the empty list
\* included) the returned mapping has exactly 1 + len(axial_loads) entries.
C1_EntryCount ==
    Returned => Len(curves) = 1 + Len(args.axial_loads)

\* C2: with helix_enable false, every returned curve equals the curve
\* obtained with helix angle 0 and bend_amp_factor = 1, all else equal.
C2_HelixOffIgnoresKBend ==
    (Returned /\ ~args.helix_enable) =>
        curves = compute_curves([args EXCEPT !.helix_angle_deg = 0, !.bend_amp_factor = One])

\* C3: a call with n_cond <= 0 and a non-empty load list never raises and
\* returns the curves of the same call with n_cond = 1.
C3_NCondFloored ==
    (pc # "call" /\ args.n_cond <= 0 /\ Len(args.axial_loads) > 0) =>
        /\ pc # "raised"
        /\ curves = compute_curves([args EXCEPT !.n_cond = 1])

\* C7: with f_axial_share = 0 every "Case 2" curve equals the
\* "Case 1: Pure bending" curve at every radius of the sweep.
C7_ZeroShareEqualsPure ==
    (Returned /\ args.f_axial_share = Zero) =>
        \A i \in 1..Len(curves) :
            \A j \in 1..Len(args.R_m) : curves[i].values[j] = PureValues[j]

\* C7 witness: a zero-share call with two distinct non-zero loads in lbf,
\* helix and reduction on, a non-zero offset, that has returned three curves.
C7_Witness ==
    /\ pc = "returned" /\ args.f_axial_share = Zero
    /\ Len(curves) = 3 /\ args.y_mm = Num(2)
    /\ args.axial_loads = <<Num(20), Num(100)>> /\ args.loads_unit = "lbf"
    /\ args.helix_enable /\ args.axial_reduction_enable
    /\ PureValues[1] # Zero

\* C8 as stated: for E > 0, y >= 0 and radii 0 < R1 < R2 the pure-bending
\* stress at R1 is strictly greater than at R2.
C8_StrictlyDecreasing ==
    Returned =>
        \A i, j \in 1..Len(args.R_m) :
            RatLess(args.R_m[i], args.R_m[j]) => RatLess(PureValues[j], PureValues[i])

\* C8 amended: for y > 0 the pure-bending stress at R1 is strictly greater
\* than at R2 whenever 0 < R1 < R2; for y = 0 it is 0 at every radius.
C8_DecreasingForPositiveY ==
    Returned =>
        \A i, j \in 1..Len(args.R_m) :
            RatLess(args.R_m[i], args.R_m[j]) =>
                IF RatLess(Zero, args.y_mm)
                THEN RatLess(PureValues[j], PureValues[i])
                ELSE PureValues[i] = Zero /\ PureValues[j] = Zero

\* C8 witness: a returned call with y > 0 over two radii R1 < R2.
C8_Witness ==
    /\ pc = "returned" /\ args.y_mm = Num(2)
    /\ args.R_m = <<Frac(1, 2), Num(2)>>
    /\ RatLess(PureValues[2], PureValues[1])

\* index of the first load of the input list whose label is lbl
FirstLoad(lbl) ==
    CHOOSE i \in 1..Len(args.axial_loads) :
        /\ Label(args.axial_loads[i], args.loads_unit) = lbl
        /\ \A k \in 1..(i - 1) : Label(args.axial_loads[k], args.loads_unit) # lbl

\* C9: the display order is "Case 1: Pure bending" first, then the
\* axial-load curves in the order their loads appear in the input list.
C9_DisplayInInputOrder ==
    pc = "displayed" =>
        /\ labels_sorted[1] = PureLabel
        /\ \A i, j \in 2..Len(labels_sorted) :
               i < j => FirstLoad(labels_sorted[i]) < FirstLoad(labels_sorted[j])

(***************************************************************************)
(* Card 2 input: parsing the comma-separated load text.                    *)
(***************************************************************************)
default_loads == <<Num(20), Num(40), Num(60), Num(80), Num(100), Num(200)>>

IsDigit(c) == c \in {"0", "1", "2", "3", "4", "5", "6", "7", "8", "9"}
DigitVal(c) == CHOOSE k \in 0..9 : DigitChar(k) = c

\* loads_str.split(",")
RECURSIVE SplitAcc(_, _, _)
SplitAcc(s, i, cur) ==
    IF i > Len(s) THEN <<cur>>
    ELSE IF s[i] = "," THEN <<cur>> \o SplitAcc(s, i + 1, <<>>)
    ELSE SplitAcc(s, i + 1, Append(cur, s[i]))
Split(s) == SplitAcc(s, 1, <<>>)

\* x.strip()
RECURSIVE LStrip(_)
LStrip(t) == IF t # <<>> /\ Head(t) = " " THEN LStrip(Tail(t)) ELSE t
RECURSIVE RStrip(_)
RStrip(t) == IF t # <<>> /\ t[Len(t)] = " " THEN RStrip(SubSeq(t, 1, Len(t) - 1)) ELSE t
Strip(t) == RStrip(LStrip(t))

\* float(t) succeeds; over the characters of InputChars the accepted
\* tokens are an optional sign followed by one or more digits, with
\* surrounding blanks allowed.
FloatOk(t) ==
    LET u == Strip(t)
        m == IF u # <<>> /\ Head(u) = "-" THEN Tail(u) ELSE u
    IN  m # <<>> /\ \A i \in 1..Len(m) : IsDigit(m[i])

RECURSIVE NatOf(_)
NatOf(m) == IF m = <<>> THEN 0 ELSE 10 * NatOf(SubSeq(m, 1, Len(m) - 1)) + DigitVal(m[Len(m)])

\* float(t) for a token with FloatOk(t)
FloatOf(t) ==
    LET u == Strip(t)
    IN  IF Head(u) = "-" THEN Num(-NatOf(Tail(u))) ELSE Num(NatOf(u))

\* the tokens the comprehension keeps: x.strip() != ""
RECURSIVE Kept(_)
Kept(toks) ==
    IF toks = <<>> THEN <<>>
    ELSE IF Strip(Head(toks)) # <<>> THEN <<Head(toks)>> \o Kept(Tail(toks))
    ELSE Kept(Tail(toks))

\* a plausible slip: keep what parsed before the first bad token
RECURSIVE ParsedPrefix(_)
ParsedPrefix(toks) ==
    IF toks = <<>> \/ ~FloatOk(Head(toks)) THEN <<>>
    ELSE <<FloatOf(Strip(Head(toks)))>> \o ParsedPrefix(Tail(toks))
ParseKeepPrefix(s) == ParsedPrefix(Kept(Split(s)))

\* try: [float(x.strip()) for x in loads_str.split(",") if x.strip() != ""]
\* except Exception: default_loads
ParseLoads(s) ==
    LET toks == Kept(Split(s))
    IN  IF \A i \in 1..Len(toks) : FloatOk(Strip(toks[i]))
        THEN [i \in 1..Len(toks) |-> FloatOf(Strip(toks[i]))]
        ELSE default_loads

InputChars == {"0", "1", "-", " ", ",", "x"}
InputStrings == UNION {[1..k -> InputChars] : k \in 0..MaxStrLen}

InitParse ==
    /\ pc = "text"
    /\ loads_str \in InputStrings
    /\ axial_loads = <<>>
    /\ IdleCurves /\ IdleSweep /\ IdleGeom

\* the try/except around the list comprehension
Parse ==
    /\ pc = "text"
    /\ axial_loads' = ParseLoads(loads_str)
    /\ pc' = "parsed"
    /\ UNCHANGED <<loads_str, curveVars, sweepVars, geomVars>>

NextParse == Parse
SpecParse == InitParse /\ [][NextParse]_vars

\* the maximal comma-free pieces of loads_str, by their end points
IsToken(i, j) ==
    /\ 1 <= i /\ i <= j + 1 /\ j <= Len(loads_str)
    /\ (i = 1 \/ loads_str[i - 1] = ",")
    /\ (j = Len(loads_str) \/ loads_str[j + 1] = ",")
    /\ \A k \in i..j : loads_str[k] # ","
Blank(i, j) == \A k \in i..j : loads_str[k] = " "
\* the token is a number: blanks, an optional sign, digits, blanks
Numeric(i, j) ==
    \E a \in i..j, b \in i..j :
        /\ a <= b
        /\ \A k \in i..(a - 1) : loads_str[k] = " "
        /\ \A k \in (b + 1)..j : loads_str[k] = " "
        /\ IsDigit(loads_str[b])
        /\ \A k \in (a + 1)..b : IsDigit(loads_str[k])
        /\ (IsDigit(loads_str[a]) \/ (loads_str[a] = "-" /\ a < b))
TokenSpans == {ij \in (1..(Len(loads_str) + 1)) \X (0..Len(loads_str)) : IsToken(ij[1], ij[2])}
NonBlankSpans == {ij \in TokenSpans : ~Blank(ij[1], ij[2])}
\* the decimal value of the digits of a numeric token
RECURSIVE SpanValue(_, _, _)
SpanValue(i, j, acc) ==
    IF i > j THEN acc
    ELSE IF IsDigit(loads_str[i]) THEN SpanValue(i + 1, j, 10 * acc + DigitVal(loads_str[i]))
    ELSE SpanValue(i + 1, j, acc)
SpanNumber(ij) ==
    LET v == SpanValue(ij[1], ij[2], 0)
    IN  IF \E k \in ij[1]..ij[2] : loads_str[k] = "-" THEN Num(-v) ELSE Num(v)

\* C6: parsing never fails; if any non-blank token is not a number the load
\* list is exactly the default [20, 40, 60, 80, 100, 200]; otherwise it is
\* the numeric values of the non-blank tokens in input order.
C6_ParseOrDefault ==
    pc = "parsed" =>
        IF \E ij \in NonBlankSpans : ~Numeric(ij[1], ij[2])
        THEN axial_loads = default_loads
        ELSE /\ Len(axial_loads) = Cardinality(NonBlankSpans)
             /\ \A ij \in NonBlankSpans :
                    axial_loads[Cardinality({x \in NonBlankSpans : x[1] <= ij[1]})] = SpanNumber(ij)

\* C6 witness: a text whose first token parses and whose later token does
\* not has been replaced by the default list as a whole.
C6_Witness ==
    /\ pc = "parsed"
    /\ loads_str = <<"1", ",", "x">>
    /\ axial_loads = default_loads

(***************************************************************************)
(* Card 2: the radius sweep R = np.linspace(R_min, R_max, int(n_pts)).     *)
(***************************************************************************)
MaxRminSteps == 8   \* R_min ranges over 0.05 * (1..MaxRminSteps)
MaxPtsSteps == 1    \* n_pts ranges over 100 + 50 * (0..MaxPtsSteps)

\* numpy.linspace(start, stop, num), num > 1, endpoint=True
linspace(start, stop, num) ==
    LET step == RatDiv(RatSub(stop, start), Num(num - 1))
    IN  [i \in 1..num |->
            IF i = num THEN stop ELSE RatAdd(RatMul(Num(i - 1), step), start)]

RminInputs == {Dec(5 * k, -2) : k \in 1..MaxRminSteps}         \* min_value = 0.05
RmaxInputs == {Dec(2, -1), Dec(25, -2), Dec(5, -1), Num(10)}   \* min_value = 0.2
PtsInputs == {100 + 50 * k : k \in 0..MaxPtsSteps}             \* slider 100..1000 step 50

InitSweep ==
    /\ pc = "range"
    /\ R_min \in RminInputs /\ R_max \in RmaxInputs /\ n_pts \in PtsInputs
    /\ R = <<>>
    /\ IdleCurves /\ IdleParse /\ IdleGeom

Sweep ==
    /\ pc = "range"
    /\ R' = linspace(R_min, R_max, n_pts)
    /\ pc' = "swept"
    /\ UNCHANGED <<R_min, R_max, n_pts, curveVars, parseVars, geomVars>>

NextSweep == Sweep
SpecSweep == InitSweep /\ [][NextSweep]_vars

\* C5: for every accepted (R_min, R_max, sample_count) the sweep handed to
\* compute_curves has R_max >= R_min, is strictly increasing and positive.
C5_SweepInvariant ==
    pc = "swept" =>
        /\ RatLeq(R_min, R_max)
        /\ \A i \in 1..Len(R) : RatLess(Zero, R[i])
        /\ \A i \in 1..(Len(R) - 1) : RatLess(R[i], R[i + 1])

(***************************************************************************)
(* Card 1: cable geometry, the default offset y and the fit validations.   *)
(***************************************************************************)
\* the plausible slip the help text describes: max(overlap limit, fit limit)
ComputeYDefaultMax(r_ins_m, r_core_m, clr_in_m) ==
    RatMax(RatAdd(r_ins_m, RatMul(Dec(5, -1), clr_in_m)),
           RatMax(Zero, RatSub(RatSub(r_core_m, r_ins_m), clr_in_m)))

compute_y_default(r_ins_m, r_core_m, clr_in_m) ==
    LET y_min_overlap == RatAdd(r_ins_m, RatMul(Dec(5, -1), clr_in_m))
        y_max_fit == RatMax(Zero, RatSub(RatSub(r_core_m, r_ins_m), clr_in_m))
    IN  IF RatLess(y_max_fit, y_min_overlap) THEN y_max_fit ELSE y_min_overlap

\* np.round(x, 3) for x >= 0: to the nearest multiple of 0.001, ties to even
Round3(x) ==
    LET N == IF x.e + 3 >= 0 THEN x.n * Pow10(x.e + 3) ELSE x.n
        D == IF x.e + 3 >= 0 THEN x.d ELSE x.d * Pow10(-(x.e + 3))
        q == N \div D
        r == 2 * (N - q * D)
        k == IF r < D THEN q
             ELSE IF r > D THEN q + 1
             ELSE IF q % 2 = 0 THEN q ELSE q + 1
    IN  Dec(k, -3)

\* AWG_DB diam_mm: 16 AWG (the default) and 4/0 AWG
AwgDiams == {Dec(1291, -3), Dec(11684, -3)}
GeoInputs ==
    [diam_mm : AwgDiams,
     ins_thk_mm : {Zero, Dec(75, -2)},                     \* min_value = 0.0
     od_mm : {Num(2), Dec(145, -1), Num(35)},              \* 2.0 .. 35.0
     jkt_wall_mm : {Dec(2, -1), Num(3), Num(8)},           \* min_value = 0.2
     min_clear_mm : {Zero, Dec(2, -1)}]                    \* min_value = 0.0

\* overrides of y typed into the number_input (min_value = 0.0)
YOverrides == {Zero, Num(5)}

InitGeom ==
    /\ pc = "card1"
    /\ geo \in GeoInputs
    /\ r_core = Zero /\ r_ins = Zero /\ clr_m = Zero
    /\ y_default_mm = Zero /\ y_mm = Zero /\ fit_errors = {}
    /\ IdleCurves /\ IdleParse /\ IdleSweep

\* "Geometry (meters)" and the default y
Geometry ==
    /\ pc = "card1"
    /\ LET rc == RatDiv(RatSub(RatDiv(geo.od_mm, Num(2)), geo.jkt_wall_mm), Num(1000))
           r_cu == RatDiv(RatDiv(geo.diam_mm, Num(2)), Num(1000))
           ri == RatAdd(r_cu, RatDiv(geo.ins_thk_mm, Num(1000)))
           cl == RatDiv(geo.min_clear_mm, Num(1000))
       IN  /\ r_core' = rc
           /\ r_ins' = ri
           /\ clr_m' = cl
           /\ y_default_mm' = RatMul(Num(1000), compute_y_default(ri, rc, cl))
    /\ pc' = "y_input"
    /\ UNCHANGED <<geo, y_mm, fit_errors, curveVars, parseVars, sweepVars>>

\* the y number_input left at its default, np.round(y_default_mm, 3)
KeepDefaultY ==
    /\ pc = "y_input"
    /\ y_mm' = Round3(y_default_mm)
    /\ pc' = "validate"
    /\ UNCHANGED <<geo, r_core, r_ins, clr_m, y_default_mm, fit_errors,
                   curveVars, parseVars, sweepVars>>

\* the y number_input overridden by the user (any value >= 0, the
\* unrounded default among them)
OverrideY ==
    /\ pc = "y_input"
    /\ y_mm' \in YOverrides \cup {y_default_mm}
    /\ pc' = "validate"
    /\ UNCHANGED <<geo, r_core, r_ins, clr_m, y_default_mm, fit_errors,
                   curveVars, parseVars, sweepVars>>

\* "Validations (use r_ins for fit)"
Validate ==
    /\ pc = "validate"
    /\ LET x_left == RatNeg(RatDiv(y_mm, Num(1000)))
           x_right == RatDiv(y_mm, Num(1000))
           reach(x) == RatAdd(RatAdd(RatAbs(x), r_ins), clr_m)
       IN  fit_errors' =
               {m \in {"wall"} : RatLeq(geo.od_mm, RatMul(geo.jkt_wall_mm, Num(2)))}
               \cup {m \in {"core"} : RatLeq(r_core, Zero)}
               \cup {m \in {"left"} : RatLess(r_core, reach(x_left))}
               \cup {m \in {"right"} : RatLess(r_core, reach(x_right))}
               \cup {m \in {"overlap"} :
                        RatLess(RatMul(Num(2), RatDiv(y_mm, Num(1000))),
                                RatAdd(RatMul(Num(2), r_ins), clr_m))}
    /\ pc' = "card1_done"
    /\ UNCHANGED <<geo, r_core, r_ins, clr_m, y_default_mm, y_mm,
                   curveVars, parseVars, sweepVars>>

NextGeom == Geometry \/ KeepDefaultY \/ OverrideY \/ Validate
SpecGeom == InitGeom /\ [][NextGeom]_vars

OverlapMin == RatAdd(r_ins, RatMul(Dec(5, -1), clr_m))
FitMin == RatMax(Zero, RatSub(RatSub(r_core, r_ins), clr_m))
Feasible == RatLeq(OverlapMin, FitMin)

\* C4: compute_y_default returns the larger of the overlap-avoidance minimum
\* (r_ins + clr/2) and the fit-inside-core minimum max(0, r_core - r_ins - clr).
C4_DefaultIsLarger ==
    pc # "card1" =>
        y_default_mm = RatMul(Num(1000), RatMax(OverlapMin, FitMin))

Init == InitCurves \/ InitParse \/ InitSweep \/ InitGeom
Next == NextCurves \/ NextParse \/ NextSweep \/ NextGeom
Spec == Init /\ [][Next]_vars

====
